---- MODULE Spec2Model ----
(***************************************************************************)
(* Tenant lifecycle manager: namespace scaling orchestrator                *)
(* (backend/app/services/k8s_client.py), tenant service and state          *)
(* transition recorder (backend/app/services/tenant_service.py), cron      *)
(* engine (backend/app/services/scheduler.py) and uptime/downtime metrics  *)
(* engine (backend/app/services/metrics_service.py).                       *)
(*                                                                         *)
(* Cluster API calls are modelled as the source reads them: a patch call   *)
(* stores the object the code built (a field the code set to None is       *)
(* absent afterwards, a deleted annotation is gone).  Timestamps are whole *)
(* seconds on one time line: a stored changed_at and the bounds of a       *)
(* reporting window compare as instants.  Audit log rows and the           *)
(* next_run_at of a schedule are not part of the state; a last_run_status  *)
(* is kept as its prefix and its reason, before the cut to 50 characters.  *)
(***************************************************************************)
EXTENDS Integers, Sequences, FiniteSets, TLC

\* ------------------------------------------------------------------ bounds
\* Largest replica count of a workload and largest target of a scale call.
MaxReplicas == 2
\* Largest number of resources whose cluster API calls fail in one batch.
MaxFailures == 1

\* ------------------------------------------------------- cluster objects
\* The namespace holds one Deployment, one StatefulSet and one DaemonSet,
\* listed in the order list_namespace_deployments returns them.
ResourceNames == <<"web", "db", "agent">>

ResourceType(name) ==
    CASE name = "web" -> "Deployment"
      [] name = "db" -> "StatefulSet"
      [] OTHER -> "DaemonSet"

ReplicaNames == {"web", "db"}
DaemonNames == {"agent"}
AllNames == ReplicaNames \cup DaemonNames

\* Optional values: an annotation that is not in the annotations dict, a
\* node selector that is None.
NoAnnotation == [present |-> FALSE, value |-> <<>>]
NoSelector == [present |-> FALSE, value |-> {}]
Present(v) == [present |-> TRUE, value |-> v]

\* str(n) of a non-negative integer: its decimal digits, most significant first.
DigitChars == <<"0", "1", "2", "3", "4", "5", "6", "7", "8", "9">>

RECURSIVE Str(_)
Str(n) ==
    IF n < 0 THEN <<"-">> \o Str(0 - n)
    ELSE IF n < 10 THEN <<DigitChars[n + 1]>>
    ELSE Str(n \div 10) \o <<DigitChars[(n % 10) + 1]>>

DigitValue(c) == (CHOOSE i \in 1..10 : DigitChars[i] = c) - 1

\* int(s) of a string of decimal digits.
RECURSIVE ParseInt(_)
ParseInt(s) ==
    IF Len(s) = 0 THEN 0
    ELSE 10 * ParseInt(SubSeq(s, 1, Len(s) - 1)) + DigitValue(s[Len(s)])

\* A node selector map is a set of <<key, value>> pairs; json.dumps writes
\* the pairs as a sequence, json.loads reads the sequence back into a map.
StoppedSelector == {<<"tenant-management/stopped", "true">>}
UserSelector == {<<"disktype", "ssd">>}

RECURSIVE JsonDumps(_)
JsonDumps(map) ==
    IF map = {} THEN <<>>
    ELSE LET p == CHOOSE q \in map : TRUE
         IN <<p>> \o JsonDumps(map \ {p})

JsonLoads(s) == {s[i] : i \in 1..Len(s)}

\* Python truthiness of an optional dict: None and {} are both false.
Truthy(opt) == opt.present /\ opt.value # {}

\* ------------------------------------------------------------------ state
VARIABLES
    workloads,      \* cluster: name -> object, for the resources of the namespace
    call,           \* the last scale_namespace call: target, outcome, failures
    trail,          \* the last two successful scales of a namespace's only resource;
                    \* for the scheduler on its own, the log of its due occurrences
    namespace_exists,   \* cluster: whether the tenant's namespace exists
    tenant,         \* database: the tenant row of the namespace
    history,        \* database: the tenant's state transitions, oldest first
    schedule,       \* database: the tenant's schedule row
    jobs,           \* scheduler: the live job table, schedule id -> job
    grants,         \* database: users holding an enabled grant on the namespace
    now,            \* the clock, in seconds
    last,           \* the last tenant operation: request, outcome, log before it
    report          \* the last monthly report returned

clusterVars == <<workloads, call, trail>>
tenantVars == <<namespace_exists, tenant, history, schedule, jobs, grants, now,
               last>>
vars == <<workloads, call, trail, namespace_exists, tenant, history, schedule,
          jobs, grants, now, last, report>>

\* A replica workload (Deployment, StatefulSet) or a DaemonSet as the
\* cluster stores it: spec.replicas, the original-replicas annotation,
\* spec.template.spec.node_selector, the original-node-selector annotation.
Object(replicas, annotation, selector, selectorAnnotation) ==
    [replicas |-> replicas,
     original_replicas |-> annotation,
     node_selector |-> selector,
     original_node_selector |-> selectorAnnotation]

\* The "N/A" a result entry carries in place of a replica count.
NotApplicable == -1

\* Where the cluster API raises during one resource's scale: nowhere, at
\* the read of the object, at the first write call or at the last write
\* call.  (Stopping a running replica workload makes two write calls, the
\* annotation patch and the scale patch; every other scale makes one.)
FailPoints == {"none", "read", "first_write", "last_write"}

\* -------------------------------------------------------- scale_deployment
\* Restore-on-start: scaling up from 0 replaces the caller's count by the
\* count stored in the original-replicas annotation, when there is one.
RestoredReplicasIgnored(obj, replicas) == replicas

RestoredReplicas(obj, replicas) ==
    IF replicas > 0 /\ obj.replicas = 0 /\ obj.original_replicas.present
    THEN ParseInt(obj.original_replicas.value)
    ELSE replicas

\* The scale patch made first and the annotation patch last.
ScaleDeploymentScalingFirst(obj, replicas, failAt) ==
    LET current_replicas == obj.replicas
        stores == replicas = 0 /\ current_replicas > 0
        target == RestoredReplicas(obj, replicas)
        scaled == [obj EXCEPT !.replicas = target]
    IN  IF failAt = "read" \/ failAt = "first_write"
        THEN [obj |-> obj, raised |-> TRUE, applied |-> NotApplicable]
        ELSE IF failAt = "last_write"
        THEN [obj |-> IF stores THEN scaled ELSE obj, raised |-> TRUE,
              applied |-> NotApplicable]
        ELSE [obj |-> IF stores
                      THEN [scaled EXCEPT
                              !.original_replicas = Present(Str(current_replicas))]
                      ELSE scaled,
              raised |-> FALSE, applied |-> target]

ScaleDeployment(obj, replicas, failAt) ==
    LET current_replicas == obj.replicas
        stores == replicas = 0 /\ current_replicas > 0
        annotated ==
            IF stores
            THEN [obj EXCEPT !.original_replicas = Present(Str(current_replicas))]
            ELSE obj
        target == RestoredReplicas(obj, replicas)
    IN  IF failAt = "read" \/ (failAt = "first_write" /\ stores)
        THEN [obj |-> obj, raised |-> TRUE, applied |-> NotApplicable]
        ELSE IF failAt \in {"first_write", "last_write"}
        THEN [obj |-> annotated, raised |-> TRUE, applied |-> NotApplicable]
        ELSE [obj |-> [annotated EXCEPT !.replicas = target],
              raised |-> FALSE, applied |-> target]

\* ------------------------------------------------------- scale_statefulset
ScaleStatefulset(obj, replicas, failAt) ==
    LET current_replicas == obj.replicas
        stores == replicas = 0 /\ current_replicas > 0
        annotated ==
            IF stores
            THEN [obj EXCEPT !.original_replicas = Present(Str(current_replicas))]
            ELSE obj
        target ==
            IF replicas > 0 /\ current_replicas = 0 /\ obj.original_replicas.present
            THEN ParseInt(obj.original_replicas.value)
            ELSE replicas
    IN  IF failAt = "read" \/ (failAt = "first_write" /\ stores)
        THEN [obj |-> obj, raised |-> TRUE, applied |-> NotApplicable]
        ELSE IF failAt \in {"first_write", "last_write"}
        THEN [obj |-> annotated, raised |-> TRUE, applied |-> NotApplicable]
        ELSE [obj |-> [annotated EXCEPT !.replicas = target],
              raised |-> FALSE, applied |-> target]

\* --------------------------------------------------------- scale_daemonset
\* The selector a start puts back: the saved one, or None when the saved
\* value is the empty map.
RestoredSelectorAsMap(original_selector) == Present(original_selector)

RestoredSelector(original_selector) ==
    IF original_selector # {} THEN Present(original_selector) ELSE NoSelector

\* The DaemonSet is read, changed in memory and written back by one patch
\* call; a failure of either call leaves the stored object as it was.
ScaleDaemonset(obj, stop, failAt) ==
    LET stopped ==
            [obj EXCEPT
                !.original_node_selector =
                    IF Truthy(obj.node_selector)
                    THEN Present(JsonDumps(obj.node_selector.value))
                    ELSE Present(<<>>),
                !.node_selector = Present(StoppedSelector)]
        original_selector == JsonLoads(obj.original_node_selector.value)
        started ==
            IF obj.original_node_selector.present
            THEN [obj EXCEPT
                    !.node_selector = RestoredSelector(original_selector),
                    !.original_node_selector = NoAnnotation]
            ELSE [obj EXCEPT !.node_selector = NoSelector]
    IN  IF failAt # "none"
        THEN [obj |-> obj, raised |-> TRUE, applied |-> NotApplicable]
        ELSE [obj |-> IF stop THEN stopped ELSE started,
              raised |-> FALSE, applied |-> NotApplicable]

\* ---------------------------------------------- list_namespace_deployments
\* The inventory of the namespace: Deployments, then StatefulSets, then
\* DaemonSets.  A namespace the cluster does not know (404) gives [].
IsStopped(obj) ==
    obj.node_selector.present
        /\ <<"tenant-management/stopped", "true">> \in obj.node_selector.value

RECURSIVE Inventory(_, _)
Inventory(ws, i) ==
    IF i > Len(ResourceNames) THEN <<>>
    ELSE (IF ResourceNames[i] \in DOMAIN ws
          THEN <<[name |-> ResourceNames[i],
                  type |-> ResourceType(ResourceNames[i]),
                  replicas |-> ws[ResourceNames[i]].replicas,
                  is_stopped |-> IsStopped(ws[ResourceNames[i]])]>>
          ELSE <<>>)
         \o Inventory(ws, i + 1)

ListNamespaceDeployments(ws, exists) ==
    IF exists THEN Inventory(ws, 1) ELSE <<>>

\* --------------------------------------------------------- scale_namespace
ScaleResource(resource, obj, replicas, failAt) ==
    CASE resource.type = "Deployment" -> ScaleDeployment(obj, replicas, failAt)
      [] resource.type = "StatefulSet" -> ScaleStatefulset(obj, replicas, failAt)
      [] OTHER -> ScaleDaemonset(obj, replicas = 0, failAt)

ResultEntry(resource, outcome, replicas) ==
    IF outcome.raised
    THEN [resource |-> resource.name, type |-> resource.type,
          success |-> FALSE, replicas |-> NotApplicable, error |-> TRUE]
    ELSE [resource |-> resource.name, type |-> resource.type,
          success |-> TRUE,
          replicas |-> IF resource.type # "DaemonSet" THEN replicas
                       ELSE NotApplicable,
          error |-> FALSE]

\* The loop over the inventory: every resource is scaled in turn, an
\* exception of one resource becomes its result entry and the loop goes on.
RECURSIVE ScaleLoopAborting(_, _, _, _, _, _)
ScaleLoopAborting(resources, i, ws, results, replicas, fail) ==
    IF i > Len(resources)
    THEN [workloads |-> ws, results |-> results, raised |-> FALSE,
          target_replicas |-> replicas, total_resources |-> Len(resources)]
    ELSE LET resource == resources[i]
             outcome == ScaleResource(resource, ws[resource.name], replicas,
                                      fail[resource.name])
             entries == Append(results, ResultEntry(resource, outcome, replicas))
             ws2 == [ws EXCEPT ![resource.name] = outcome.obj]
         IN IF outcome.raised
            THEN [workloads |-> ws2, results |-> entries, raised |-> FALSE,
                  target_replicas |-> replicas,
                  total_resources |-> Len(resources)]
            ELSE ScaleLoopAborting(resources, i + 1, ws2, entries, replicas, fail)

RECURSIVE ScaleLoop(_, _, _, _, _, _)
ScaleLoop(resources, i, ws, results, replicas, fail) ==
    IF i > Len(resources)
    THEN [workloads |-> ws, results |-> results, raised |-> FALSE,
          target_replicas |-> replicas, total_resources |-> Len(resources)]
    ELSE LET resource == resources[i]
             outcome == ScaleResource(resource, ws[resource.name], replicas,
                                      fail[resource.name])
         IN ScaleLoop(resources, i + 1,
                      [ws EXCEPT ![resource.name] = outcome.obj],
                      Append(results, ResultEntry(resource, outcome, replicas)),
                      replicas, fail)

\* listFails: listing the inventory raised an API error other than 404.
ScaleNamespace(ws, exists, replicas, fail, listFails) ==
    IF listFails
    THEN [workloads |-> ws, results |-> <<>>, raised |-> TRUE,
          target_replicas |-> replicas, total_resources |-> 0]
    ELSE ScaleLoop(ListNamespaceDeployments(ws, exists), 1, ws, <<>>,
                   replicas, fail)

\* ------------------------------------------------- inputs of a scale call
NoFailure == [n \in AllNames |-> "none"]

FailureChoices ==
    {f \in [AllNames -> FailPoints] :
        Cardinality({n \in AllNames : f[n] # "none"}) <= MaxFailures}

\* ----------------------------------------------- orchestrator on its own
InitialSelectors == {NoSelector, Present({}), Present(UserSelector)}

\* The resources a namespace holds: one workload of a kind, or all three.
Contents == {{"web"}, {"db"}, {"agent"}, AllNames}

InitialObject(n, replicas, selector) ==
    IF n \in ReplicaNames
    THEN Object(replicas, NoAnnotation, NoSelector, NoAnnotation)
    ELSE Object(0, NoAnnotation, selector, NoAnnotation)

InitCluster ==
    /\ \E names \in Contents, size \in [ReplicaNames -> 0..MaxReplicas],
          sel \in InitialSelectors :
            workloads = [n \in names |->
                            InitialObject(n, IF n \in ReplicaNames THEN size[n] ELSE 0, sel)]
    /\ call = [target |-> NotApplicable, results |-> <<>>, raised |-> FALSE,
               failed |-> {}]
    /\ trail = <<>>
    /\ namespace_exists = TRUE
    /\ tenant = [exists |-> FALSE]
    /\ history = <<>>
    /\ schedule = [exists |-> FALSE]
    /\ jobs = <<>>
    /\ grants = {}
    /\ now = 0
    /\ last = [op |-> "none"]
    /\ report = [month |-> -1]

Succeeded(results, name) ==
    \E i \in 1..Len(results) : results[i].resource = name /\ results[i].success

\* The last two entries of a sequence.
LastTwo(s) == SubSeq(s, IF Len(s) > 2 THEN Len(s) - 1 ELSE 1, Len(s))

\* A namespace scale through the orchestrator, with the bookkeeping the
\* properties below read: the call with the resources whose cluster API
\* calls raised, and, in a namespace of one resource, that resource before
\* and after each of its last two successful scales.
ScaleNamespaceCall(replicas, fail, listFails) ==
    LET out == ScaleNamespace(workloads, namespace_exists, replicas, fail, listFails)
        only == CHOOSE n \in DOMAIN workloads : TRUE
    IN  /\ workloads' = out.workloads
        /\ call' = [target |-> replicas, results |-> out.results,
                    raised |-> out.raised,
                    failed |-> IF listFails THEN {}
                               ELSE {n \in DOMAIN workloads : fail[n] # "none"}]
        /\ trail' = IF Cardinality(DOMAIN workloads) = 1
                       /\ Succeeded(out.results, only)
                    THEN LastTwo(Append(trail,
                            [target |-> replicas, before |-> workloads[only],
                             after |-> out.workloads[only]]))
                    ELSE trail
        /\ UNCHANGED <<tenantVars, report>>

StopNamespace ==
    \E fail \in FailureChoices : ScaleNamespaceCall(0, fail, FALSE)

StartNamespace ==
    \E replicas \in 1..MaxReplicas, fail \in FailureChoices :
        ScaleNamespaceCall(replicas, fail, FALSE)

ListingFails ==
    \E replicas \in 0..MaxReplicas : ScaleNamespaceCall(replicas, NoFailure, TRUE)

\* ------------------------------------------------- tenant service, database
\* Number of tenant operations (requests and fires), one per second.
MaxClock == 3

Namespace == "tenant-a"

AdminUser == [sub |-> "admin", roles |-> {"admin"}]
OperatorUser == [sub |-> "operator", roles |-> {"operator"}]
\* The system user of the scheduler: UserInfo(sub="scheduler") with the
\* default, empty, role list.
SchedulerUser == [sub |-> "scheduler", roles |-> {}]

\* An Optional[int] column or argument that is None.
NoReplicas == -1
NoTime == [present |-> FALSE, value |-> 0]

\* get_user_allowed_namespaces: the wildcard for admins and viewers,
\* otherwise the namespaces of the user's enabled grants.
\* user_namespaces is the table of grants: rows of user_id, namespace and
\* enabled, at most one row for a user and a namespace.
GetUserAllowedNamespacesOfAllGrants(user, user_namespaces) ==
    IF "admin" \in user.roles THEN {"*"}
    ELSE IF "viewer" \in user.roles THEN {"*"}
    ELSE {row.namespace : row \in {g \in user_namespaces : g.user_id = user.sub}}

GetUserAllowedNamespaces(user, user_namespaces) ==
    IF "admin" \in user.roles THEN {"*"}
    ELSE IF "viewer" \in user.roles THEN {"*"}
    ELSE {row.namespace :
            row \in {g \in user_namespaces : g.user_id = user.sub /\ g.enabled}}

\* The rows of the table when grantees are the users with an enabled grant
\* on the one namespace.
UserNamespaces(grantees) ==
    {[user_id |-> g, namespace |-> Namespace, enabled |-> TRUE] : g \in grantees}

CheckNamespaceAccess(namespace, user, grantees) ==
    LET allowed_namespaces ==
            GetUserAllowedNamespaces(user, UserNamespaces(grantees))
    IN  IF "*" \in allowed_namespaces THEN TRUE
        ELSE namespace \in allowed_namespaces

\* The tenant row: Column defaults for a row scale_tenant creates.  The id
\* of a missing row is the last value its sequence gave out.
NoTenantRow == [exists |-> FALSE, id |-> 0, current_replicas |-> 0,
                last_scaled_at |-> NoTime, last_scaled_by |-> "nobody"]
CreatedTenant == [exists |-> TRUE, id |-> 1, current_replicas |-> 0,
                  last_scaled_at |-> NoTime, last_scaled_by |-> "nobody"]

\* The row the session inserts when none is stored: the next id.
InsertedTenant(row) == [CreatedTenant EXCEPT !.id = row.id + 1]

\* _record_state_change: the log after the call.
PreviousState(previous_replicas) ==
    IF previous_replicas # NoReplicas
    THEN IF previous_replicas = 0 THEN "stopped" ELSE "running"
    ELSE "none"

NewState(new_replicas) == IF new_replicas = 0 THEN "stopped" ELSE "running"

RecordStateChange(log, previous_replicas, new_replicas, changed_by, at) ==
    LET previous_state == PreviousState(previous_replicas)
        new_state == NewState(new_replicas)
    IN  IF previous_state # new_state \/ previous_state = "none"
        THEN Append(log, [previous_state |-> previous_state,
                          new_state |-> new_state,
                          previous_replicas |-> previous_replicas,
                          new_replicas |-> new_replicas,
                          changed_at |-> at, changed_by |-> changed_by])
        ELSE log

\* scale_tenant: the cluster and the committed database after the call, the
\* HTTP status the caller gets (200 for the returned tenant), the text of the
\* exception raised, and whether scale_namespace returned without raising.
ScaleTenant(ws, exists, row, log, grantees, at, replicas, user, fail, listFails) ==
    LET out == ScaleNamespace(ws, exists, replicas, fail, listFails)
        previous_replicas == IF row.exists THEN row.current_replicas ELSE NoReplicas
        db_tenant == [(IF row.exists THEN row ELSE InsertedTenant(row)) EXCEPT
                          !.last_scaled_at = [present |-> TRUE, value |-> at],
                          !.last_scaled_by = user.sub]
        recorded == RecordStateChange(log, previous_replicas, replicas, user.sub, at)
    IN  IF ~exists
        THEN [workloads |-> ws, tenant |-> row, history |-> log, status |-> 404,
              error |-> "404: Namespace 'tenant-a' not found",
              executed |-> FALSE, results |-> <<>>]
        ELSE IF out.raised
        THEN [workloads |-> out.workloads, tenant |-> row, history |-> log,
              status |-> 500, error |-> "500: Failed to scale tenant",
              executed |-> FALSE, results |-> <<>>]
        ELSE IF ~CheckNamespaceAccess(Namespace, user, grantees)
        THEN [workloads |-> out.workloads, tenant |-> db_tenant,
              history |-> recorded, status |-> 403,
              error |-> "403: Access denied to namespace 'tenant-a'",
              executed |-> TRUE, results |-> out.results]
        ELSE [workloads |-> out.workloads, tenant |-> db_tenant,
              history |-> recorded, status |-> 200, error |-> "",
              executed |-> TRUE, results |-> out.results]

StartTenant(ws, exists, row, log, grantees, at, user, fail, listFails) ==
    ScaleTenant(ws, exists, row, log, grantees, at, 1, user, fail, listFails)

StopTenant(ws, exists, row, log, grantees, at, user, fail, listFails) ==
    ScaleTenant(ws, exists, row, log, grantees, at, 0, user, fail, listFails)

\* get_tenant: the status it reports for the inventory of the namespace,
\* given the sum of the ready_replicas of its entries.
RECURSIVE TotalReplicas(_)
TotalReplicas(deployments) ==
    IF deployments = <<>> THEN 0
    ELSE Head(deployments).replicas + TotalReplicas(Tail(deployments))

GetTenantStatus(deployments, ready_replicas) ==
    IF deployments = <<>> THEN "unknown"
    ELSE IF TotalReplicas(deployments) = 0 THEN "stopped"
    ELSE IF ready_replicas = TotalReplicas(deployments) THEN "running"
    ELSE "scaling"

\* list_tenants: the status it reports for the inventory of a namespace;
\* a namespace with an empty inventory is left out of the list.
RECURSIVE ReadyReplicas(_)
ReadyReplicas(deployments) ==
    IF deployments = <<>> THEN 0
    ELSE Head(deployments).ready_replicas + ReadyReplicas(Tail(deployments))

Counted(deployments) ==
    SelectSeq(deployments, LAMBDA d : ~(d.type = "DaemonSet" /\ d.is_stopped))

ListTenantsStatus(deployments) ==
    LET total_replicas == TotalReplicas(Counted(deployments))
        ready_replicas == ReadyReplicas(Counted(deployments))
        has_stopped_resources ==
            \E i \in 1..Len(deployments) :
                deployments[i].type = "DaemonSet" /\ deployments[i].is_stopped
    IN  IF deployments = <<>> THEN "not listed"
        ELSE IF total_replicas = 0 \/ has_stopped_resources THEN "stopped"
        ELSE IF ready_replicas = total_replicas THEN "running"
        ELSE IF ready_replicas < total_replicas THEN "scaling"
        ELSE "unknown"

\* The inventories list_namespace_deployments can return for a namespace:
\* each resource is there or not, with its replicas and ready_replicas.
Entries(name) ==
    {[name |-> name, type |-> ResourceType(name), replicas |-> r,
      ready_replicas |-> ready, is_stopped |-> stopped] :
        r \in 0..MaxReplicas, ready \in 0..MaxReplicas,
        stopped \in IF name \in DaemonNames THEN BOOLEAN ELSE {FALSE}}

Inventories ==
    {web \o db \o agent :
        web \in {<<>>} \cup {<<e>> : e \in Entries("web")},
        db \in {<<>>} \cup {<<e>> : e \in Entries("db")},
        agent \in {<<>>} \cup {<<e>> : e \in Entries("agent")}}

\* The cluster answers list_namespace_deployments with last.deployments.
InitStatus ==
    /\ namespace_exists = TRUE
    /\ workloads = [n \in {} |-> NoSelector]
    /\ call = [target |-> NotApplicable, results |-> <<>>, raised |-> FALSE,
               failed |-> {}]
    /\ trail = <<>>
    /\ tenant = [exists |-> FALSE]
    /\ history = <<>>
    /\ schedule = [exists |-> FALSE]
    /\ jobs = <<>>
    /\ grants = {}
    /\ now = 0
    /\ \E deployments \in Inventories :
            last = [op |-> "inventory", deployments |-> deployments]
    /\ report = [month |-> -1]

\* The tenant list and the single-tenant query report on the namespace.
StatusReported ==
    /\ last.op = "inventory"
    /\ report' = [list_tenants |-> ListTenantsStatus(last.deployments),
                  get_tenant |-> GetTenantStatus(last.deployments,
                                                 ReadyReplicas(last.deployments))]
    /\ last' = [last EXCEPT !.op = "status"]
    /\ UNCHANGED <<workloads, call, trail, namespace_exists, tenant, history,
                   schedule, jobs, grants, now>>

\* ------------------------------------------- two servers, one Deployment
\* Two server processes work on the same cluster: the one that runs the
\* scheduler and one that serves the API with scheduler_enabled off.  In
\* one process a scale_namespace call makes its cluster API calls without
\* giving up the event loop; calls of different processes interleave.
Servers == {"scheduler", "api"}

\* Number of scale calls.
MaxCalls == 3

Idle == [pc |-> "idle", replicas |-> 0, deployment |-> <<>>]

\* After the read: the annotation patch when a running Deployment is
\* stopped, the scale patch otherwise.
AfterReadScaleOnly(replicas, deployment) == "scale"

AfterRead(replicas, deployment) ==
    IF replicas = 0 /\ deployment.replicas > 0 THEN "annotate" ELSE "scale"

\* The replica count the Deployment had when it last ran, the calls that
\* overlapped another.
Ran(obj, ran) == IF obj.replicas > 0 THEN obj.replicas ELSE ran

InitRace ==
    /\ namespace_exists = TRUE
    /\ \E size \in 0..MaxReplicas :
            /\ workloads = [n \in {"web"} |->
                    [replicas |-> size, original_replicas |-> NoAnnotation,
                     node_selector |-> NoSelector,
                     original_node_selector |-> NoAnnotation,
                     resource_version |-> 0]]
            /\ last = [op |-> "race", ran |-> size, overlapped |-> FALSE]
    /\ call = [p \in Servers |-> Idle]
    /\ trail = <<>>
    /\ tenant = [exists |-> FALSE]
    /\ history = <<>>
    /\ schedule = [exists |-> FALSE]
    /\ jobs = <<>>
    /\ grants = {}
    /\ now = 0
    /\ report = [month |-> -1]

\* scale_namespace(replicas) begins in server p: the inventory is listed.
ScaleBegins(p) ==
    /\ last.op = "race"
    /\ now < MaxCalls
    /\ call[p].pc = "idle"
    /\ \E replicas \in 0..MaxReplicas :
            call' = [call EXCEPT ![p] = [pc |-> "read", replicas |-> replicas,
                                        deployment |-> <<>>]]
    /\ now' = now + 1
    /\ last' = [last EXCEPT !.overlapped =
                    @ \/ \E q \in Servers \ {p} : call[q].pc # "idle"]
    /\ UNCHANGED <<workloads, trail, namespace_exists, tenant, history, schedule,
                   jobs, grants, report>>

\* read_namespaced_deployment
DeploymentRead(p) ==
    /\ last.op = "race"
    /\ call[p].pc = "read"
    /\ call' = [call EXCEPT
                    ![p].deployment = workloads["web"],
                    ![p].pc = AfterRead(call[p].replicas, workloads["web"])]
    /\ UNCHANGED <<workloads, trail, tenantVars, report>>

\* patch_namespaced_deployment with the object read as its body: the
\* cluster refuses a body whose resourceVersion is not the current one.
AnnotationPatched(p) ==
    /\ last.op = "race"
    /\ call[p].pc = "annotate"
    /\ call[p].deployment.resource_version = workloads["web"].resource_version
    /\ workloads' = [workloads EXCEPT !["web"] =
            [call[p].deployment EXCEPT
                !.original_replicas = Present(Str(call[p].deployment.replicas)),
                !.resource_version = @ + 1]]
    /\ call' = [call EXCEPT ![p].pc = "scale"]
    /\ UNCHANGED <<trail, tenantVars, report>>

\* patch_namespaced_deployment_scale, with the stored count when the
\* Deployment was read at 0 with an annotation.
ScalePatched(p) ==
    /\ last.op = "race"
    /\ call[p].pc = "scale"
    /\ LET target == RestoredReplicas(call[p].deployment, call[p].replicas)
           web == [workloads["web"] EXCEPT
                      !.replicas = target,
                      !.resource_version =
                          IF target = workloads["web"].replicas THEN @ ELSE @ + 1]
       IN  /\ workloads' = [workloads EXCEPT !["web"] = web]
           /\ last' = [last EXCEPT !.ran = Ran(web, @)]
    /\ call' = [call EXCEPT ![p] = Idle]
    /\ UNCHANGED <<trail, namespace_exists, tenant, history, schedule, jobs,
                   grants, now, report>>

\* A cluster API call of the scale raises (a conflict among them): the
\* exception becomes the result entry of the resource and the call ends.
ApiRaises(p) ==
    /\ last.op = "race"
    /\ call[p].pc \in {"read", "annotate", "scale"}
    /\ call' = [call EXCEPT ![p] = Idle]
    /\ UNCHANGED <<workloads, trail, tenantVars, report>>

\* ------------------------------------------------------- allowed namespaces
Roles == {"admin", "operator", "viewer"}
Subs == {"alice", "bob"}
GrantedNamespaces == {"tenant-a", "tenant-b"}

\* The tables of grants: no row, an enabled row or a disabled row for every
\* user and namespace.
GrantTables ==
    {{[user_id |-> k[1], namespace |-> k[2], enabled |-> f[k] = "enabled"] :
        k \in {x \in Subs \X GrantedNamespaces : f[x] # "none"}} :
            f \in [Subs \X GrantedNamespaces -> {"none", "enabled", "disabled"}]}

\* A user, with any roles, asks; the table of grants is in grants.
InitAccess ==
    /\ namespace_exists = TRUE
    /\ workloads = [n \in {} |-> NoSelector]
    /\ call = [target |-> NotApplicable, results |-> <<>>, raised |-> FALSE,
               failed |-> {}]
    /\ trail = <<>>
    /\ tenant = [exists |-> FALSE]
    /\ history = <<>>
    /\ schedule = [exists |-> FALSE]
    /\ jobs = <<>>
    /\ grants \in GrantTables
    /\ now = 0
    /\ \E sub \in Subs, roles \in SUBSET Roles :
            last = [op |-> "user", user |-> [sub |-> sub, roles |-> roles]]
    /\ report = [month |-> -1]

AllowedNamespacesRequest ==
    /\ last.op = "user"
    /\ report' = [allowed_namespaces |-> GetUserAllowedNamespaces(last.user, grants)]
    /\ last' = [last EXCEPT !.op = "allowed"]
    /\ UNCHANGED <<workloads, call, trail, namespace_exists, tenant, history,
                   schedule, jobs, grants, now>>

\* ---------------------------------------------------------------- scheduler
\* The schedule row; the id of a missing row is the last value its sequence
\* gave out.  A cron expression is the sequence of its fields.
NoSchedule == [exists |-> FALSE, id |-> 0, tenant_id |-> 0, action |-> "stop",
               cron_expression |-> <<>>, enabled |-> FALSE,
               last_run_at |-> NoTime, last_run_status |-> <<>>]

\* The row of schedule_id, as select(Schedule).where(Schedule.id == ...) and
\* scalar_one_or_none give it.
Stored(row, schedule_id) == row.exists /\ row.id = schedule_id

\* status_msg of _update_schedule_status, as its fixed prefix and the reason.
StatusMsg(success, error) ==
    IF success THEN <<"success">> ELSE <<"failed: ", error>>

UpdateScheduleStatus(row, schedule_id, success, error, at) ==
    IF Stored(row, schedule_id)
    THEN [row EXCEPT !.last_run_at = [present |-> TRUE, value |-> at],
                     !.last_run_status = StatusMsg(success, error)]
    ELSE row

\* str(e) of the AttributeError raised by the lookup of ScheduleAction.SCALE,
\* a member the enumeration does not have: the text depends on the Python
\* version that runs the service.
EnumErrorTexts == {"SCALE", "type object 'ScheduleAction' has no attribute 'SCALE'"}

\* _execute_schedule: one fire of the job of schedule_id, whose arguments
\* are the tenant id and the action the job was registered with.  The fire
\* gives the cluster and the committed database after it and whether an
\* exception left the handler.  Caught tells what the except clause around
\* the body does with an exception of the tenant service.
FireOutcome(ws, exists, row, log, grantees, at, sched, schedule_id, job, fail, listFails, enumError, caught) ==
    LET scaled == IF job.action = "start"
                  THEN StartTenant(ws, exists, row, log, grantees, at,
                                   SchedulerUser, fail, listFails)
                  ELSE StopTenant(ws, exists, row, log, grantees, at,
                                  SchedulerUser, fail, listFails)
        succeeded == UpdateScheduleStatus(sched, schedule_id, TRUE, "", at)
    IN  IF ~(row.exists /\ row.id = job.tenant_id)
        THEN [workloads |-> ws, tenant |-> row, history |-> log,
              schedule |-> UpdateScheduleStatus(sched, schedule_id, FALSE,
                                                "Tenant not found", at),
              status |-> 0, executed |-> FALSE, results |-> <<>>,
              raised |-> FALSE]
        ELSE [workloads |-> scaled.workloads, tenant |-> scaled.tenant,
              history |-> scaled.history,
              schedule |-> IF scaled.status # 200
                           THEN IF caught
                                THEN UpdateScheduleStatus(sched, schedule_id, FALSE,
                                                          scaled.error, at)
                                ELSE sched
                           ELSE UpdateScheduleStatus(succeeded, schedule_id, FALSE,
                                                     enumError, at),
              status |-> scaled.status, executed |-> scaled.executed,
              results |-> scaled.results,
              raised |-> scaled.status # 200 /\ ~caught]

ExecuteScheduleUncaught(ws, exists, row, log, grantees, at, sched, schedule_id, job, fail, listFails, enumError) ==
    FireOutcome(ws, exists, row, log, grantees, at, sched, schedule_id, job, fail,
                listFails, enumError, FALSE)

ExecuteSchedule(ws, exists, row, log, grantees, at, sched, schedule_id, job, fail, listFails, enumError) ==
    FireOutcome(ws, exists, row, log, grantees, at, sched, schedule_id, job, fail,
                listFails, enumError, TRUE)

\* ------------------------------------------------------ schedule requests
\* The actions of a schedule.
Actions == {"start", "stop"}

\* A field of a cron expression: a number, or Star for "*".
Star == -1
FieldMin == <<0, 0, 1, 1, 0>>
FieldMax == <<59, 23, 31, 12, 6>>

\* validate_cron of ScheduleBase and ScheduleUpdate: five fields.
ValidateCron(v) == Len(v) = 5

\* CronTrigger.from_crontab returns a trigger: five fields, each in the
\* range of its position; it raises ValueError otherwise.
FromCrontab(expr) ==
    /\ Len(expr) = 5
    /\ \A i \in 1..5 : expr[i] = Star \/ (FieldMin[i] <= expr[i] /\ expr[i] <= FieldMax[i])

\* The job add_job registers: args=[schedule.id, schedule.tenant_id,
\* schedule.action] under the id of the schedule, with its trigger.
JobOf(row) == [tenant_id |-> row.tenant_id, action |-> row.action,
               trigger |-> row.cron_expression]

Without(table, schedule_id) == [i \in DOMAIN table \ {schedule_id} |-> table[i]]

\* remove_schedule: the job table after the call.
RemoveSchedule(table, schedule_id) == Without(table, schedule_id)

\* add_schedule with the scheduler enabled: the job table after the call
\* and whether the call raised.
AddSchedule(table, row) ==
    IF FromCrontab(row.cron_expression)
    THEN [jobs |-> Without(table, row.id) @@ (row.id :> JobOf(row)), raised |-> FALSE]
    ELSE [jobs |-> Without(table, row.id), raised |-> TRUE]

\* load_schedules: the job table of a started process.
LoadSchedules(row) ==
    IF row.exists /\ row.enabled /\ ~AddSchedule(<<>>, row).raised
    THEN AddSchedule(<<>>, row).jobs
    ELSE <<>>

\* ScheduleService.create_schedule behind POST /schedules, called with the
\* namespace of the tenant: the committed database, the job table and the
\* HTTP status after the request.
CreateSchedule(sched, row, table, request) ==
    LET db_tenant == IF row.exists THEN row ELSE InsertedTenant(row)
        db_schedule == [NoSchedule EXCEPT !.exists = TRUE, !.id = sched.id + 1,
                                          !.tenant_id = db_tenant.id,
                                          !.action = request.action,
                                          !.cron_expression = request.cron_expression,
                                          !.enabled = request.enabled]
        added == AddSchedule(table, db_schedule)
    IN  IF ~ValidateCron(request.cron_expression)
        THEN [schedule |-> sched, tenant |-> row, jobs |-> table, status |-> 422]
        ELSE IF ~db_schedule.enabled
        THEN [schedule |-> db_schedule, tenant |-> db_tenant, jobs |-> table,
              status |-> 201]
        ELSE [schedule |-> db_schedule, tenant |-> db_tenant, jobs |-> added.jobs,
              status |-> IF added.raised THEN 500 ELSE 201]

\* A field of ScheduleUpdate the request left unset.
Unset == [present |-> FALSE, value |-> 0]
Set(v) == [present |-> TRUE, value |-> v]

\* ScheduleService.update_schedule behind PUT /schedules/{schedule_id}.
UpdateSchedule(sched, table, schedule_id, update) ==
    LET updated == [sched EXCEPT
                        !.action = IF update.action.present
                                   THEN update.action.value ELSE @,
                        !.cron_expression = IF update.cron_expression.present
                                            THEN update.cron_expression.value ELSE @,
                        !.enabled = IF update.enabled.present
                                    THEN update.enabled.value ELSE @]
        added == AddSchedule(table, updated)
    IN  IF update.cron_expression.present
           /\ ~ValidateCron(update.cron_expression.value)
        THEN [schedule |-> sched, jobs |-> table, status |-> 422]
        ELSE IF ~Stored(sched, schedule_id)
        THEN [schedule |-> sched, jobs |-> table, status |-> 404]
        ELSE IF ~updated.enabled
        THEN [schedule |-> updated, jobs |-> RemoveSchedule(table, updated.id),
              status |-> 200]
        ELSE [schedule |-> updated, jobs |-> added.jobs,
              status |-> IF added.raised THEN 500 ELSE 200]

\* ScheduleService.delete_schedule behind DELETE /schedules/{schedule_id}.
DeleteSchedule(sched, table, schedule_id) ==
    IF ~Stored(sched, schedule_id)
    THEN [schedule |-> sched, jobs |-> table, status |-> 404]
    ELSE [schedule |-> [NoSchedule EXCEPT !.id = sched.id],
          jobs |-> RemoveSchedule(table, schedule_id), status |-> 204]

\* TenantService.delete_tenant: the tenant row goes and, by the cascade of
\* its foreign key, so does its schedule row; the job table is not touched.
DeleteTenant(sched, row) ==
    IF ~row.exists
    THEN [tenant |-> row, schedule |-> sched, status |-> 404]
    ELSE [tenant |-> [NoTenantRow EXCEPT !.id = row.id],
          schedule |-> IF sched.exists /\ sched.tenant_id = row.id
                       THEN [NoSchedule EXCEPT !.id = sched.id] ELSE sched,
          status |-> 200]

\* ------------------------------------------------------- tenant operations
Users == {AdminUser, OperatorUser}
Grantees == {"operator", "scheduler"}
SeededReplicas == 0..MaxReplicas

NoOperation == [op |-> "none", replicas |-> 0, user |-> "nobody", status |-> 0,
                executed |-> FALSE, clean |-> FALSE, prior |-> <<>>,
                schedule_id |-> 0, raised |-> FALSE, results |-> <<>>]

NoCall == [target |-> NotApplicable, results |-> <<>>, raised |-> FALSE,
           failed |-> {}]

\* The namespace of the tenant holds no workload or one Deployment.
TenantContents == {{}, {"web"}}

InitTenant ==
    /\ namespace_exists \in BOOLEAN
    /\ \E names \in TenantContents, replicas \in 0..MaxReplicas :
            workloads = [n \in (IF namespace_exists THEN names ELSE {}) |->
                            InitialObject(n, replicas, NoSelector)]
    /\ call = NoCall
    /\ trail = <<>>
    /\ \/ tenant = NoTenantRow /\ schedule = NoSchedule
       \/ /\ \E seeded \in SeededReplicas :
                tenant = [CreatedTenant EXCEPT !.current_replicas = seeded]
          /\ \E action \in {"start", "stop"} :
                schedule = [NoSchedule EXCEPT !.exists = TRUE, !.id = 1,
                                              !.tenant_id = 1, !.action = action,
                                              !.cron_expression = <<0, 18, Star, Star, Star>>,
                                              !.enabled = TRUE]
    /\ jobs = LoadSchedules(schedule)
    /\ history = <<>>
    /\ grants \in SUBSET Grantees
    /\ now = 0
    /\ last = NoOperation
    /\ report = [month |-> -1]

\* The failures the cluster API can inject into one tenant operation.
TenantFailureChoices ==
    {f \in FailureChoices : \A n \in AllNames \ DOMAIN workloads : f[n] = "none"}

AllSucceeded(results) == \A i \in 1..Len(results) : results[i].success

\* A tenant operation took effect: the new cluster and database, the clock
\* one second on, and the bookkeeping the properties below read.
Completed(op, replicas, user, out, schedule_id, raised) ==
    /\ workloads' = out.workloads
    /\ tenant' = out.tenant
    /\ history' = out.history
    /\ now' = now + 1
    /\ last' = [op |-> op, replicas |-> replicas, user |-> user.sub,
                status |-> out.status, executed |-> out.executed,
                clean |-> out.executed /\ AllSucceeded(out.results),
                prior |-> history, schedule_id |-> schedule_id,
                raised |-> raised, results |-> out.results]
    /\ UNCHANGED <<call, trail, namespace_exists, jobs, grants, report>>

\* POST /tenants/{namespace}/start and /stop
StartRequest ==
    /\ now < MaxClock
    /\ \E user \in Users, fail \in TenantFailureChoices, listFails \in BOOLEAN :
        /\ listFails => fail = NoFailure
        /\ Completed("start", 1, user,
                     StartTenant(workloads, namespace_exists, tenant, history,
                                 grants, now, user, fail, listFails), 0, FALSE)
        /\ UNCHANGED schedule

StopRequest ==
    /\ now < MaxClock
    /\ \E user \in Users, fail \in TenantFailureChoices, listFails \in BOOLEAN :
        /\ listFails => fail = NoFailure
        /\ Completed("stop", 0, user,
                     StopTenant(workloads, namespace_exists, tenant, history,
                                grants, now, user, fail, listFails), 0, FALSE)
        /\ UNCHANGED schedule

\* A cron occurrence of the schedule's job.
Fire ==
    /\ now < MaxClock
    /\ \E schedule_id \in DOMAIN jobs, fail \in TenantFailureChoices,
          listFails \in BOOLEAN, enumError \in EnumErrorTexts :
        /\ listFails => fail = NoFailure
        /\ LET job == jobs[schedule_id]
               out == ExecuteSchedule(workloads, namespace_exists, tenant, history,
                                      grants, now, schedule, schedule_id, job, fail,
                                      listFails, enumError)
           IN  /\ Completed("fire", IF job.action = "start" THEN 1 ELSE 0,
                            SchedulerUser, out, schedule_id, out.raised)
               /\ schedule' = out.schedule

\* ---------------------------------------------- overlapping tenant operations
\* The two tenant operations of one server that can be under way together:
\* a fire of a schedule and a request.  scale_tenant gives up the event loop
\* first at its SELECT of the tenant row, after scale_namespace returned.
Operations == {"fire", "request"}

UserOf(p) == IF p = "fire" THEN SchedulerUser ELSE AdminUser

Resting == [pc |-> "idle", replicas |-> 0]

Selecting == {p \in Operations : call[p].pc = "select"}

\* The database half of scale_tenant: the row and the log it commits.
TrackedScale(row, log, at, replicas, user) ==
    LET previous_replicas == IF row.exists THEN row.current_replicas ELSE NoReplicas
        db_tenant == [(IF row.exists THEN row ELSE InsertedTenant(row)) EXCEPT
                          !.last_scaled_at = [present |-> TRUE, value |-> at],
                          !.last_scaled_by = user.sub]
    IN  [tenant |-> db_tenant,
         history |-> RecordStateChange(log, previous_replicas, replicas,
                                       user.sub, at)]

\* The tenant of the schedule is stored; its namespace holds Deployment web.
InitOverlap ==
    /\ namespace_exists = TRUE
    /\ \E replicas \in 0..MaxReplicas :
            workloads = [n \in {"web"} |-> InitialObject(n, replicas, NoSelector)]
    /\ call = [p \in Operations |-> Resting]
    /\ trail = <<>>
    /\ \E seeded \in SeededReplicas :
            tenant = [CreatedTenant EXCEPT !.current_replicas = seeded]
    /\ history = <<>>
    /\ schedule = [exists |-> FALSE]
    /\ jobs = <<>>
    /\ grants = {"scheduler"}
    /\ now = 0
    /\ last = [op |-> "overlap", concurrent |-> FALSE]
    /\ report = [month |-> -1]

\* start_tenant or stop_tenant begins and runs up to its SELECT: the
\* namespace is scaled.
NamespaceScaledBy(p) ==
    /\ last.op = "overlap"
    /\ call[p].pc = "idle"
    /\ now + Cardinality(Selecting) < MaxClock
    /\ \E replicas \in {0, 1} :
        /\ workloads' = ScaleNamespace(workloads, namespace_exists, replicas,
                                       NoFailure, FALSE).workloads
        /\ call' = [call EXCEPT ![p] = [pc |-> "select", replicas |-> replicas]]
        /\ last' = [last EXCEPT !.concurrent =
                        IF Selecting = {} THEN FALSE
                        ELSE @ \/ \E q \in Selecting :
                                    (call[q].replicas = 0) # (replicas = 0)]
    /\ UNCHANGED <<trail, namespace_exists, tenant, history, schedule, jobs,
                   grants, now, report>>

\* The rest of scale_tenant: the row is read and updated, the transition
\* recorded with the time of the clock, and the session committed.
TransitionRecorded(p) ==
    /\ last.op = "overlap"
    /\ call[p].pc = "select"
    /\ LET out == TrackedScale(tenant, history, now, call[p].replicas, UserOf(p))
       IN  tenant' = out.tenant /\ history' = out.history
    /\ call' = [call EXCEPT ![p] = Resting]
    /\ now' = now + 1
    /\ UNCHANGED <<workloads, trail, namespace_exists, schedule, jobs, grants,
                   last, report>>

\* ------------------------------------------------------ missing namespace
\* The namespace of the tenant holds Deployment web or does not exist; no
\* tenant row is stored.
InitLookup ==
    /\ namespace_exists \in BOOLEAN
    /\ \E replicas \in 0..MaxReplicas :
            workloads = [n \in (IF namespace_exists THEN {"web"} ELSE {}) |->
                            InitialObject(n, replicas, NoSelector)]
    /\ call = NoCall
    /\ trail = <<>>
    /\ tenant = NoTenantRow
    /\ history = <<>>
    /\ schedule = NoSchedule
    /\ jobs = <<>>
    /\ grants \in SUBSET Grantees
    /\ now = 0
    /\ last = NoOperation
    /\ report = [month |-> -1]

\* list_namespace_deployments called on the namespace of the tenant: what
\* it returns, or the API error other than 404 it lets through.
ListRequest ==
    /\ \E listFails \in BOOLEAN :
            last' = [op |-> "list",
                     error |-> IF listFails THEN "ApiException" ELSE "none",
                     inventory |-> IF listFails THEN <<>>
                                   ELSE ListNamespaceDeployments(workloads,
                                                                 namespace_exists)]
    /\ UNCHANGED <<workloads, call, trail, namespace_exists, tenant, history,
                   schedule, jobs, grants, now, report>>

\* scale_namespace called on the namespace of the tenant, the cluster API
\* answering every call.
NamespaceScaled ==
    /\ now < MaxClock
    /\ \E replicas \in 0..MaxReplicas :
        LET out == ScaleNamespace(workloads, namespace_exists, replicas, NoFailure,
                                  FALSE)
        IN  /\ workloads' = out.workloads
            /\ call' = [target |-> replicas, results |-> out.results,
                        raised |-> out.raised, failed |-> {}]
    /\ now' = now + 1
    /\ UNCHANGED <<trail, namespace_exists, tenant, history, schedule, jobs, grants,
                   last, report>>

\* ------------------------------------------------------ recorded transition
\* scale_tenant is about to record a scale to last.replicas of the one
\* workload of the tenant, of whose pods last.ready are ready; the tenant
\* row is missing or holds the replica count of before.
InitRecord ==
    /\ namespace_exists = TRUE
    /\ workloads = [n \in {"web"} |-> InitialObject(n, 0, NoSelector)]
    /\ call = NoCall
    /\ trail = <<>>
    /\ \/ tenant = NoTenantRow
       \/ \E seeded \in SeededReplicas :
                tenant = [CreatedTenant EXCEPT !.current_replicas = seeded]
    /\ history = <<>>
    /\ schedule = NoSchedule
    /\ jobs = <<>>
    /\ grants = {}
    /\ now \in 0..MaxClock
    /\ \E new_replicas \in 0..MaxReplicas, ready \in 0..MaxReplicas, user \in Users :
            /\ ready <= new_replicas
            /\ last = [op |-> "scale", replicas |-> new_replicas, ready |-> ready,
                       user |-> user.sub]
    /\ report = [month |-> -1]

\* The call of _record_state_change in scale_tenant.
RecordTransition ==
    /\ last.op = "scale"
    /\ history' = RecordStateChange(history,
                                    IF tenant.exists THEN tenant.current_replicas
                                    ELSE NoReplicas,
                                    last.replicas, last.user, now)
    /\ last' = [last EXCEPT !.op = "recorded"]
    /\ UNCHANGED <<workloads, call, trail, namespace_exists, tenant, schedule, jobs,
                   grants, now, report>>

\* ------------------------------------------------------------ misfires
\* misfire_grace_time of the jobs add_schedule registers, in seconds.
MisfireGraceTime == 300
\* Seconds between two occurrences of the trigger "* * * * *".
Period == 60
\* Last second of the time line of the engine.
MaxTime == 480

\* How late, in seconds, the scheduler wakes for a due job, and how long the
\* process stays down.
Delays == {0, 30, Period, MisfireGraceTime, MisfireGraceTime + 1}
Downtimes == {1, Period + 30, MisfireGraceTime + 1}

Occurrences(from, to) == {t \in from..to : t % Period = 0}

\* get_next_fire_time(None, now) of the trigger: the first occurrence at or
\* after now.
NextFireTime(t) == ((t + Period - 1) \div Period) * Period

Latest(times) == CHOOSE t \in times : \A u \in times : u <= t

\* The job as the scheduler holds it, with its next_run_time.
Scheduled(job, next_run_time) ==
    [tenant_id |-> job.tenant_id, action |-> job.action, trigger |-> job.trigger,
     next_run_time |-> next_run_time]

\* The process started at second 0 with one enabled schedule that fires
\* every minute; load_schedules registered its job.
InitMisfire ==
    /\ namespace_exists = TRUE
    /\ workloads = [n \in {"web"} |-> InitialObject(n, 1, NoSelector)]
    /\ call = NoCall
    /\ trail = {}
    /\ tenant = CreatedTenant
    /\ history = <<>>
    /\ \E action \in Actions :
            schedule = [NoSchedule EXCEPT !.exists = TRUE, !.id = 1, !.tenant_id = 1,
                                          !.action = action,
                                          !.cron_expression = <<Star, Star, Star, Star, Star>>,
                                          !.enabled = TRUE]
    /\ jobs = [i \in DOMAIN LoadSchedules(schedule) |->
                    Scheduled(LoadSchedules(schedule)[i], NextFireTime(0))]
    /\ grants = {"scheduler"}
    /\ now = 0
    /\ last = NoOperation
    /\ report = [month |-> -1]

\* The scheduler wakes for the job of the schedule, delay seconds after its
\* next_run_time: the occurrences that are due are coalesced into the
\* latest one (the job default), which is run unless it is more than
\* misfire_grace_time old, and the job gets the occurrence after it.  The
\* log notes for every occurrence that was due when it could first start
\* and what became of it.
Wake ==
    \E schedule_id \in DOMAIN jobs, delay \in Delays :
        LET job == jobs[schedule_id]
            at == job.next_run_time + delay
            run_times == Occurrences(job.next_run_time, at)
            run_time == Latest(run_times)
        IN  /\ now <= at
            /\ at <= MaxTime
            /\ now' = at
            /\ trail' =
                    {[scheduled |-> t, at |-> at,
                      outcome |-> IF t # run_time THEN "coalesced"
                                  ELSE IF at - t > MisfireGraceTime THEN "missed"
                                  ELSE "executed"] : t \in run_times}
            /\ jobs' = [jobs EXCEPT ![schedule_id] =
                                        Scheduled(job, run_time + Period)]
            /\ last' = [op |-> "wake", schedule_id |-> schedule_id]
            /\ UNCHANGED <<workloads, call, namespace_exists, tenant, history,
                           schedule, grants, report>>

\* The process stops and is up again downtime seconds later: the job table
\* lives in memory, load_schedules registers the job anew and its first
\* occurrence is the first one from the start on.
Outage ==
    \E downtime \in Downtimes :
        LET at == now + downtime
            table == LoadSchedules(schedule)
        IN  /\ at <= MaxTime
            /\ now' = at
            /\ trail' =
                    UNION {{[scheduled |-> t, at |-> at, outcome |-> "lost"] :
                                t \in Occurrences(jobs[i].next_run_time, at - 1)} :
                           i \in DOMAIN jobs}
            /\ jobs' = [i \in DOMAIN table |-> Scheduled(table[i], NextFireTime(at))]
            /\ last' = [op |-> "outage"]
            /\ UNCHANGED <<workloads, call, namespace_exists, tenant, history,
                           schedule, grants, report>>

\* ----------------------------------------------------- schedule operations
\* Largest id the schedule sequence gives out.
MaxScheduleId == 2

\* Cron expressions of requests: four fields, five fields in range (18:00
\* every day, 07:30 on Mondays), five fields with hour 24, six fields.
CronExpressions == {<<0, 18, Star, Star>>,
                    <<0, 18, Star, Star, Star>>,
                    <<30, 7, Star, Star, 1>>,
                    <<0, 24, Star, Star, Star>>,
                    <<0, 0, 18, Star, Star, Star>>}

ScheduleIds == 1..MaxScheduleId

CreateRequests == [action : Actions, cron_expression : CronExpressions,
                   enabled : BOOLEAN]
UpdateRequests == [action : {Unset} \cup {Set(a) : a \in Actions},
                   cron_expression : {Unset} \cup {Set(c) : c \in CronExpressions},
                   enabled : {Unset} \cup {Set(e) : e \in BOOLEAN}]

\* The process starts on an empty schedule table, with the namespace of the
\* tenant holding Deployment web.
InitSchedules ==
    /\ namespace_exists \in BOOLEAN
    /\ workloads = [n \in (IF namespace_exists THEN {"web"} ELSE {}) |->
                        InitialObject(n, 1, NoSelector)]
    /\ call = NoCall
    /\ trail = <<>>
    /\ tenant \in {NoTenantRow, CreatedTenant}
    /\ history = <<>>
    /\ schedule = NoSchedule
    /\ jobs = <<>>
    /\ grants = {"scheduler"}
    /\ now = 0
    /\ last = NoOperation
    /\ report = [month |-> -1]

\* A schedule request took effect; the bookkeeping the properties read.
Requested(op, schedule_id, cron_expression, enabled, out) ==
    /\ schedule' = out.schedule
    /\ jobs' = out.jobs
    /\ last' = [op |-> op, schedule_id |-> schedule_id, status |-> out.status,
                cron_expression |-> cron_expression, enabled |-> enabled,
                prior |-> schedule]
    /\ UNCHANGED <<workloads, call, trail, namespace_exists, history, grants, now,
                   report>>

\* POST /schedules
CreateRequest ==
    /\ ~schedule.exists
    /\ schedule.id < MaxScheduleId
    /\ \E request \in CreateRequests :
        LET out == CreateSchedule(schedule, tenant, jobs, request)
        IN  /\ Requested("create", schedule.id + 1, Set(request.cron_expression),
                         request.enabled, out)
            /\ tenant' = out.tenant

\* PUT /schedules/{schedule_id}
UpdateRequest ==
    \E schedule_id \in ScheduleIds, update \in UpdateRequests :
        LET out == UpdateSchedule(schedule, jobs, schedule_id, update)
        IN  /\ Requested("update", schedule_id, update.cron_expression,
                         out.schedule.enabled, out)
            /\ UNCHANGED tenant

\* DELETE /schedules/{schedule_id}
DeleteRequest ==
    \E schedule_id \in ScheduleIds :
        /\ Requested("delete", schedule_id, Unset, FALSE,
                     DeleteSchedule(schedule, jobs, schedule_id))
        /\ UNCHANGED tenant

\* The process stops and starts again: lifespan builds a new scheduler and
\* load_schedules fills its job table.
Restart ==
    /\ jobs' = LoadSchedules(schedule)
    /\ last' = [op |-> "restart"]
    /\ UNCHANGED <<workloads, call, trail, namespace_exists, tenant, history,
                   schedule, grants, now, report>>

\* The process runs with one enabled schedule of the tenant, its job
\* registered; the namespace of the tenant holds Deployment web, or is gone.
InitFires ==
    /\ namespace_exists \in BOOLEAN
    /\ \E replicas \in 0..MaxReplicas :
            workloads = [n \in (IF namespace_exists THEN {"web"} ELSE {}) |->
                            InitialObject(n, replicas, NoSelector)]
    /\ call = NoCall
    /\ trail = <<>>
    /\ tenant = CreatedTenant
    /\ history = <<>>
    /\ \E action \in Actions, cron_expression \in {c \in CronExpressions : FromCrontab(c)} :
            schedule = [NoSchedule EXCEPT !.exists = TRUE, !.id = 1, !.tenant_id = 1,
                                          !.action = action,
                                          !.cron_expression = cron_expression,
                                          !.enabled = TRUE]
    /\ jobs = LoadSchedules(schedule)
    /\ grants \in SUBSET Grantees
    /\ now = 0
    /\ last = NoOperation
    /\ report = [month |-> -1]

\* delete_tenant of the tenant service.
TenantDeleted ==
    /\ tenant.exists
    /\ LET out == DeleteTenant(schedule, tenant)
       IN  /\ tenant' = out.tenant
           /\ schedule' = out.schedule
           /\ history' = <<>>
           /\ grants' = {}
           /\ last' = [op |-> "delete_tenant"]
    /\ UNCHANGED <<workloads, call, trail, namespace_exists, jobs, now, report>>

\* ------------------------------------------------------------------ metrics
\* Calendar months are laid on the time line one after the other, each
\* MonthSeconds long: month m starts at second m * MonthSeconds and its last
\* second (23:59:59 of its last day) is one second before the next month.
MonthSeconds == 3
\* The last month of the time line; months are numbered from 0.
MaxMonth == 1
\* Largest number of rows of a transition log the metrics read.
MaxLog == 2

Months == 0..MaxMonth
Times == 0..((MaxMonth + 1) * MonthSeconds - 1)

StateTypes == {"running", "stopped", "scaling", "unknown"}

MonthStart(month) == month * MonthSeconds

\* month_end: the last second of the month, or the current time when that
\* second is still to come.
ClipToNow(last_second, current_time) ==
    IF last_second > current_time THEN current_time ELSE last_second

MonthEnd(month, current_time) ==
    ClipToNow(MonthStart(month) + MonthSeconds - 1, current_time)

\* The rows with changed_at <= month_end, oldest first.
StateHistoryUpTo(log, month_end) ==
    LET Selected(row) == row.changed_at <= month_end
    IN  SelectSeq(log, Selected)

\* _format_duration
FormatDuration(seconds) ==
    LET minutes == seconds \div 60
        hours == minutes \div 60
        remaining_minutes == minutes % 60
        days == hours \div 24
        remaining_hours == hours % 24
    IN  IF seconds < 60 THEN Str(seconds) \o <<"s">>
        ELSE IF minutes < 60 THEN Str(minutes) \o <<"m">>
        ELSE IF hours < 24
        THEN IF remaining_minutes > 0
             THEN Str(hours) \o <<"h", " ">> \o Str(remaining_minutes) \o <<"m">>
             ELSE Str(hours) \o <<"h">>
        ELSE IF remaining_hours > 0
        THEN Str(days) \o <<"d", " ">> \o Str(remaining_hours) \o <<"h">>
        ELSE Str(days) \o <<"d">>

\* round(part / total * 100, 2) in hundredths of a percent, ties to even.
PercentageTruncated(part, total) ==
    IF total > 0 THEN (part * 10000) \div total ELSE 0
Percentage(part, total) ==
    LET scaled == part * 10000
        quotient == scaled \div total
        remainder == scaled % total
    IN  IF total > 0
        THEN IF 2 * remainder > total THEN quotient + 1
             ELSE IF 2 * remainder < total THEN quotient
             ELSE IF quotient % 2 = 0 THEN quotient ELSE quotient + 1
        ELSE 0

\* The report of a month that has no row up to its end.
NoHistoryReportAsUptime(month, month_start, month_end) ==
    LET total_seconds == month_end - month_start
    IN  [month |-> month, uptime_seconds |-> total_seconds, downtime_seconds |-> 0,
         scaling_seconds |-> 0, uptime_percentage |-> 10000,
         downtime_percentage |-> 0, uptime_formatted |-> FormatDuration(total_seconds),
         downtime_formatted |-> <<"0", "h">>,
         total_seconds |-> total_seconds]
NoHistoryReport(month, month_start, month_end) ==
    LET total_seconds == month_end - month_start
    IN  [month |-> month, uptime_seconds |-> 0, downtime_seconds |-> total_seconds,
         scaling_seconds |-> 0, uptime_percentage |-> 0,
         downtime_percentage |-> 10000, uptime_formatted |-> <<"0", "h">>,
         downtime_formatted |-> FormatDuration(total_seconds),
         total_seconds |-> total_seconds]

\* The state at the beginning of the month: "none" when the rows give none.
InitialStateOfFirstInside(state_history, month_start) ==
    LET inMonth == {i \in 1..Len(state_history) :
                        state_history[i].changed_at >= month_start}
        first == CHOOSE i \in inMonth : \A j \in inMonth : i <= j
    IN  IF inMonth # {}
        THEN state_history[first].new_state
        ELSE IF state_history[Len(state_history)].changed_at < month_start
        THEN state_history[Len(state_history)].new_state
        ELSE "none"

InitialState(state_history, month_start) ==
    LET inMonth == {i \in 1..Len(state_history) :
                        state_history[i].changed_at >= month_start}
        first == CHOOSE i \in inMonth : \A j \in inMonth : i <= j
    IN  IF inMonth # {}
        THEN IF first > 1 THEN state_history[first - 1].new_state ELSE "none"
        ELSE IF state_history[Len(state_history)].changed_at < month_start
        THEN state_history[Len(state_history)].new_state
        ELSE "none"

\* The duration counted for the state it was spent in.
TrackScalingApart(acc, duration) ==
    IF acc.current_state = "running"
    THEN [acc EXCEPT !.uptime_seconds = @ + duration]
    ELSE IF acc.current_state = "scaling"
    THEN [acc EXCEPT !.scaling_seconds = @ + duration]
    ELSE IF acc.current_state = "stopped"
    THEN [acc EXCEPT !.downtime_seconds = @ + duration]
    ELSE acc

Track(acc, duration) ==
    IF acc.current_state \in {"running", "scaling"}
    THEN [acc EXCEPT !.uptime_seconds = @ + duration,
                     !.scaling_seconds = IF acc.current_state = "scaling"
                                         THEN @ + duration ELSE @]
    ELSE IF acc.current_state = "stopped"
    THEN [acc EXCEPT !.downtime_seconds = @ + duration]
    ELSE acc

\* The loop over the rows, from row i on.
RECURSIVE ProcessStateChanges(_, _, _, _, _)
ProcessStateChanges(state_history, i, acc, month_start, month_end) ==
    IF i > Len(state_history) THEN acc
    ELSE LET state == state_history[i]
         IN  IF state.changed_at < month_start
             THEN ProcessStateChanges(state_history, i + 1, acc, month_start, month_end)
             ELSE IF state.changed_at > month_end THEN acc
             ELSE ProcessStateChanges(state_history, i + 1,
                     [Track(acc, state.changed_at - acc.current_time) EXCEPT
                          !.current_time = state.changed_at,
                          !.current_state = state.new_state],
                     month_start, month_end)

\* get_monthly_uptime_downtime from the query on: the report of the window
\* from month_start to month_end.
ReportOfWindow(log, month, month_start, month_end) ==
    LET state_history == StateHistoryUpTo(log, month_end)
        found == InitialState(state_history, month_start)
        initial_state == IF found = "none" THEN "stopped" ELSE found
        walked == ProcessStateChanges(state_history, 1,
                      [uptime_seconds |-> 0, downtime_seconds |-> 0,
                       scaling_seconds |-> 0, current_time |-> month_start,
                       current_state |-> initial_state],
                      month_start, month_end)
        done == IF walked.current_time < month_end
                THEN Track(walked, month_end - walked.current_time)
                ELSE walked
        total_seconds == done.uptime_seconds + done.downtime_seconds
    IN  IF state_history = <<>>
        THEN NoHistoryReport(month, month_start, month_end)
        ELSE [month |-> month,
              uptime_seconds |-> done.uptime_seconds,
              downtime_seconds |-> done.downtime_seconds,
              scaling_seconds |-> done.scaling_seconds,
              uptime_percentage |-> Percentage(done.uptime_seconds, total_seconds),
              downtime_percentage |-> Percentage(done.downtime_seconds, total_seconds),
              uptime_formatted |-> FormatDuration(done.uptime_seconds),
              downtime_formatted |-> FormatDuration(done.downtime_seconds),
              scaling_formatted |-> FormatDuration(done.scaling_seconds),
              total_seconds |-> total_seconds,
              month_start |-> month_start, month_end |-> month_end]

\* get_monthly_uptime_downtime
GetMonthlyUptimeDowntime(log, month, now_utc) ==
    ReportOfWindow(log, month, MonthStart(month), MonthEnd(month, now_utc))

\* A row of the transition log as the metrics read it.
Logged(at, state) ==
    [previous_state |-> "none", new_state |-> state,
     previous_replicas |-> NoReplicas,
     new_replicas |-> IF state = "stopped" THEN 0 ELSE 1,
     changed_at |-> at, changed_by |-> "admin"]

\* The logs of at most MaxLog rows written up to a time, oldest first.
Logs(upTo) ==
    {<<>>} \cup
    UNION {{[i \in 1..n |-> Logged(at[i], state[i])] :
                at \in {f \in [1..n -> 0..upTo] : \A i \in 1..(n - 1) : f[i] < f[i + 1]},
                state \in [1..n -> StateTypes]} : n \in 1..MaxLog}

NoReport == [month |-> -1]

InitMetrics ==
    /\ workloads = [n \in {} |-> NoSelector]
    /\ call = NoCall
    /\ trail = <<>>
    /\ namespace_exists = TRUE
    /\ tenant = CreatedTenant
    /\ schedule = NoSchedule
    /\ jobs = <<>>
    /\ grants = {}
    /\ last = NoOperation
    /\ now \in Times
    /\ history \in Logs(now)
    /\ report = NoReport

\* A call of get_monthly_uptime_downtime for the tenant and a month.
MonthlyReport ==
    \E month \in Months :
        /\ report' = GetMonthlyUptimeDowntime(history, month, now)
        /\ UNCHANGED <<workloads, call, trail, namespace_exists, tenant, history,
                       schedule, jobs, grants, now, last>>

\* ------------------------------------------------- current state duration
\* The row the query of get_current_state_duration returns: the first one
\* of the log ordered by changed_at, latest first.
LatestStateOldestFirst(log) ==
    CHOOSE row \in {log[i] : i \in 1..Len(log)} :
        \A i \in 1..Len(log) : log[i].changed_at >= row.changed_at

LatestState(log) ==
    CHOOSE row \in {log[i] : i \in 1..Len(log)} :
        \A i \in 1..Len(log) : log[i].changed_at <= row.changed_at

\* get_current_state_duration: the dict it returns.
GetCurrentStateDuration(log, current_time) ==
    IF log = <<>>
    THEN [current_state |-> "unknown", duration_seconds |-> 0,
          duration_formatted |-> <<"Unknown">>, state_since |-> NoTime]
    ELSE LET latest_state == LatestState(log)
             duration_seconds == current_time - latest_state.changed_at
         IN  [current_state |-> latest_state.new_state,
              duration_seconds |-> duration_seconds,
              duration_formatted |-> FormatDuration(duration_seconds),
              state_since |-> [present |-> TRUE, value |-> latest_state.changed_at],
              changed_by |-> latest_state.changed_by]

\* A call of get_current_state_duration for the tenant.
CurrentStateDuration ==
    /\ report' = GetCurrentStateDuration(history, now)
    /\ UNCHANGED <<workloads, call, trail, namespace_exists, tenant, history,
                   schedule, jobs, grants, now, last>>

\* ------------------------------------------------------ a six hour window
Hour == 3600
\* Latest second after the first hour at which the tenant is first started.
MaxShift == 40
\* Largest distance, in seconds, between the end of the window and now or
\* the last second of the month.
MaxLate == 2

\* The tenant is scaled to 3 replicas at t0 and stopped two hours later.
ScenarioLog(t0) ==
    <<[previous_state |-> "unknown", new_state |-> "running",
       previous_replicas |-> NoReplicas, new_replicas |-> 3,
       changed_at |-> t0, changed_by |-> "admin"],
      [previous_state |-> "running", new_state |-> "stopped",
       previous_replicas |-> 3, new_replicas |-> 0,
       changed_at |-> t0 + 2 * Hour, changed_by |-> "admin"]>>

InitScenario ==
    /\ workloads = [n \in {} |-> NoSelector]
    /\ call = NoCall
    /\ trail = <<>>
    /\ namespace_exists = TRUE
    /\ tenant = CreatedTenant
    /\ schedule = NoSchedule
    /\ jobs = <<>>
    /\ grants = {}
    /\ last = NoOperation
    /\ \E t0 \in Hour..(Hour + MaxShift), late \in 0..MaxLate :
            /\ history = ScenarioLog(t0)
            /\ now = t0 + 5 * Hour + late
    /\ report = NoReport

\* The report of the month that starts an hour before the first start and
\* whose window ends five hours after it: at the last second of the month,
\* or now in a month that is still in progress.
ScenarioReport ==
    LET t0 == history[1].changed_at
        window_end == t0 + 5 * Hour
    IN  \E last_second \in
              (IF now = window_end THEN window_end..(window_end + MaxLate)
               ELSE {window_end}) :
            /\ report' = ReportOfWindow(history, 0, t0 - Hour,
                                        ClipToNow(last_second, now))
            /\ UNCHANGED <<workloads, call, trail, namespace_exists, tenant,
                           history, schedule, jobs, grants, now, last>>

\* --------------------------------------------------------- specifications
Next == StopNamespace \/ StartNamespace \/ ListingFails

Spec == InitCluster /\ [][Next]_vars

NextTenant == StartRequest \/ StopRequest \/ Fire

SpecTenant == InitTenant /\ [][NextTenant]_vars

NextMetrics == MonthlyReport

SpecMetrics == InitMetrics /\ [][NextMetrics]_vars

NextSchedules == CreateRequest \/ UpdateRequest \/ DeleteRequest \/ Restart

SpecSchedules == InitSchedules /\ [][NextSchedules]_vars

NextOverlap ==
    \E p \in Operations : NamespaceScaledBy(p) \/ TransitionRecorded(p)

SpecOverlap == InitOverlap /\ [][NextOverlap]_vars

NextRace ==
    \E p \in Servers :
        \/ ScaleBegins(p)
        \/ DeploymentRead(p)
        \/ AnnotationPatched(p)
        \/ ScalePatched(p)
        \/ ApiRaises(p)

SpecRace == InitRace /\ [][NextRace]_vars

NextAccess == AllowedNamespacesRequest

SpecAccess == InitAccess /\ [][NextAccess]_vars

NextStatus == StatusReported

SpecStatus == InitStatus /\ [][NextStatus]_vars

NextDuration == CurrentStateDuration

SpecDuration == InitMetrics /\ [][NextDuration]_vars

NextMisfire == Wake \/ Outage

SpecMisfire == InitMisfire /\ [][NextMisfire]_vars

NextRecord == RecordTransition

SpecRecord == InitRecord /\ [][NextRecord]_vars

NextLookup == ListRequest \/ NamespaceScaled \/ StartRequest \/ StopRequest

SpecLookup == InitLookup /\ [][NextLookup]_vars

NextFires == Fire \/ TenantDeleted

SpecFires == InitFires /\ [][NextFires]_vars

NextScenario == ScenarioReport

SpecScenario == InitScenario /\ [][NextScenario]_vars

\* ============================================================ properties
OnlyReplicaWorkload == DOMAIN workloads \subseteq ReplicaNames
OnlyDaemonWorkload == DOMAIN workloads \subseteq DaemonNames

\* The last two successful scales of the resource were a stop and then a
\* start.
StopThenStart ==
    Len(trail) = 2 /\ trail[1].target = 0 /\ trail[2].target > 0

\* C1: a replica workload (Deployment or StatefulSet) that ran at N > 0
\* replicas, was scaled to 0 and then started is at exactly N replicas,
\* whatever positive count the start supplied.
C1_RestoreOnStart ==
    (OnlyReplicaWorkload /\ StopThenStart /\ trail[1].before.replicas > 0)
        => trail[2].after.replicas = trail[1].before.replicas

\* C1 witness: a stop from N > 0 and a start with a count other than N
\* have both acted, and the workload is back at N.
C1_Witness ==
    /\ OnlyReplicaWorkload /\ StopThenStart
    /\ trail[1].before.replicas > 0
    /\ trail[2].target # trail[1].before.replicas
    /\ trail[2].after.replicas = trail[1].before.replicas

\* C2: after a start (a scale with the count 1 that start_tenant passes),
\* every replica workload is at its last known running size: the size it was
\* running at when the start came, or the size it ran at before it was
\* stopped.
C2_StartKeepsRunningSize ==
    (OnlyReplicaWorkload /\ trail # <<>> /\ trail[Len(trail)].target = 1)
        => LET start == trail[Len(trail)]
           IN  /\ start.before.replicas > 0
                    => start.after.replicas = start.before.replicas
               /\ (StopThenStart /\ trail[1].before.replicas > 0)
                    => start.after.replicas = trail[1].before.replicas

C4_DaemonStopIdempotent ==
    (OnlyDaemonWorkload /\ Len(trail) = 2
        /\ trail[1].target = 0 /\ trail[2].target = 0)
        => /\ trail[2].after.original_node_selector
                = trail[1].after.original_node_selector
           /\ trail[2].after.node_selector = trail[1].after.node_selector

\* The effect a successful scale of resource n to the target has left.
Applied(n, target) ==
    IF n \in ReplicaNames
    THEN (target = 0) = (workloads[n].replicas = 0)
    ELSE IF target = 0 THEN IsStopped(workloads[n])
         ELSE ~workloads[n].original_node_selector.present

\* C5: a namespace scale in which the API calls of some resources raise
\* does not raise: it returns one entry per resource, in inventory order,
\* with success = false and an error for exactly the resources that failed,
\* and every resource that did not fail, also after a failing one, has been
\* scaled.
C5_PartialFailureReported ==
    (call.target # NotApplicable /\ call.failed # {})
        => LET resources == ListNamespaceDeployments(workloads, TRUE)
           IN  /\ ~call.raised
               /\ Len(call.results) = Len(resources)
               /\ \A i \in 1..Len(call.results) :
                    LET entry == call.results[i]
                        n == resources[i].name
                    IN  /\ entry.resource = n
                        /\ entry.success = (n \notin call.failed)
                        /\ entry.error = (n \in call.failed)
                        /\ entry.success => Applied(n, call.target)

\* C5 witness: of three resources the second failed, the first and the
\* third were stopped.
C5_Witness ==
    /\ call.target = 0 /\ call.failed = {"db"} /\ ~call.raised
    /\ Len(call.results) = 3
    /\ call.results[1].success /\ ~call.results[2].success
    /\ call.results[3].success
    /\ workloads["web"].replicas = 0 /\ IsStopped(workloads["agent"])

\* ------------------------------------------------- schedules, transitions
\* The namespace of the tenant holds a workload.
Populated == DOMAIN workloads # {}

Fired == last.op = "fire" /\ Populated

Failed(row) == Len(row.last_run_status) > 0 /\ row.last_run_status[1] = "failed: "

\* C6: after every fire of a schedule its last_run_at is set, its
\* last_run_status is "success" when the orchestrator executed the start or
\* stop without error, and "failed: <reason>" only when the execution raised.
C6_FireStatusPersisted ==
    Fired =>
        /\ schedule.last_run_at.present
        /\ last.clean => schedule.last_run_status = <<"success">>
        /\ Failed(schedule) => ~last.clean

CoarseState(log) == IF log = <<>> THEN "none" ELSE log[Len(log)].new_state

\* C7: a scale of a tenant that succeeded appends a transition record
\* whenever the coarse state of the tenant changes, and always when the
\* tenant has no transition record yet, also for a tenant row that existed
\* before its first scale.
C7_TransitionOnStateChange ==
    last.executed /\ Populated =>
        \/ CoarseState(last.prior) = NewState(last.replicas)
        \/ /\ Len(history) = Len(last.prior) + 1
           /\ history[Len(history)].new_state = NewState(last.replicas)

\* C8: no log holds two consecutive records with the same new_state, and
\* the previous_state of each record is the new_state of the record before.
C8_LogAlternates ==
    Populated =>
      \A i \in 2..Len(history) :
        /\ history[i].new_state # history[i - 1].new_state
        /\ history[i].previous_state = history[i - 1].new_state

\* ------------------------------------------------------------------ metrics
Reported == report # NoReport

WindowStart == MonthStart(report.month)
WindowEnd == MonthEnd(report.month, now)

NoTransitionUpToWindowEnd ==
    \A i \in 1..Len(history) : history[i].changed_at > WindowEnd

InEffect(i) ==
    \/ history[i].changed_at >= WindowStart /\ history[i].changed_at <= WindowEnd
    \/ /\ history[i].changed_at < WindowStart
       /\ \A j \in 1..Len(history) :
              history[j].changed_at < WindowStart => j <= i

NoUnknownInEffect ==
    \A i \in 1..Len(history) : InEffect(i) => history[i].new_state # "unknown"

\* C10: in every monthly report, of a past, the current or a future month,
\* uptime and downtime seconds together are at most the length of the
\* window, and are the length of the window when no transition in effect
\* during the window has the new state unknown.
C10_UptimeDowntimeWithinWindow ==
    Reported =>
        /\ report.uptime_seconds + report.downtime_seconds <= WindowEnd - WindowStart
        /\ NoUnknownInEffect =>
              report.uptime_seconds + report.downtime_seconds = WindowEnd - WindowStart

CronRequest ==
    last.op \in {"create", "update"} /\ last.cron_expression.present

Accepted == last.status \in {200, 201}

\* C12: a create or update request whose cron expression has 4 or 6 fields
\* is rejected and leaves the schedule table as it was; one whose expression
\* has exactly 5 fields and which names a stored (or new) schedule completes
\* without error, the expression is stored and, when the schedule is enabled,
\* its job is registered, whatever the values of the fields.
C12_FiveFieldsAccepted ==
    (CronRequest /\ last.status # 404) =>
        IF Len(last.cron_expression.value) = 5
        THEN /\ Accepted
             /\ Stored(schedule, last.schedule_id)
             /\ schedule.cron_expression = last.cron_expression.value
             /\ schedule.enabled => last.schedule_id \in DOMAIN jobs
        ELSE /\ ~Accepted
             /\ schedule = last.prior

\* C13: the job table holds a job for schedule id s exactly when a schedule
\* s is stored with enabled = true.
C13_JobsMirrorEnabledSchedules ==
    \A s \in ScheduleIds :
        s \in DOMAIN jobs <=> (Stored(schedule, s) /\ schedule.enabled)

\* ---------------------------------------------------------- failing fires
FailedFire == last.op = "fire" /\ ~last.clean

\* C14: no exception leaves the handler of a fire, and a fire that failed
\* (tenant missing, namespace missing, cluster API error) leaves the job
\* table as it was: the job that fired is still registered, with the same
\* trigger and arguments, for its next cron occurrence.
C14_FailingFireKeepsJob ==
    [][(last'.op = "fire" /\ ~last'.clean) =>
            /\ ~last'.raised
            /\ last'.schedule_id \in DOMAIN jobs'
            /\ jobs' = jobs]_vars

\* A fire failed on a missing namespace, on a missing tenant, or on a
\* cluster API error, and its job is registered.
C14_Witness ==
    /\ FailedFire
    /\ last.status = 404
    /\ last.schedule_id \in DOMAIN jobs

\* ------------------------------------------------------- empty namespaces
EmptyNamespace == namespace_exists /\ DOMAIN workloads = {}

TenantOperation == last.op \in {"start", "stop", "fire"}

\* C15: for a namespace that exists and holds no workload, get_tenant
\* reports unknown, and a start, stop or fire on it appends no transition
\* (none whose new_state is stopped or running).
C15_EmptyNamespaceNotRecorded ==
    EmptyNamespace =>
        /\ GetTenantStatus(ListNamespaceDeployments(workloads, namespace_exists), 0)
                = "unknown"
        /\ TenantOperation => history = last.prior

\* ------------------------------------------------------ missing namespace
Scaled == call.target # NotApplicable

\* C16: on a namespace that does not exist, listing the workloads fails
\* with NotFound, a namespace scale of the orchestrator raises instead of
\* returning a result report, a start or stop of the tenant ends with 404,
\* and no tenant row and no transition are stored.
C16_MissingNamespaceNotFound ==
    ~namespace_exists =>
        /\ last.op = "list" => last.error = "NotFound"
        /\ Scaled => call.raised
        /\ last.op \in {"start", "stop"} => last.status = 404
        /\ ~tenant.exists
        /\ history = <<>>

\* ------------------------------------------------------ recorded transition
\* C17: the new_state of a recorded transition is stopped when new_replicas
\* is 0, running when it is positive and every pod is ready, scaling when it
\* is positive and some pod is not ready; its previous_state is stopped for
\* 0 previous replicas and running for a positive count.
C17_NewStateFollowsReadiness ==
    (last.op = "recorded" /\ history # <<>>) =>
        LET transition == history[Len(history)]
        IN  /\ transition.new_state =
                    IF transition.new_replicas = 0 THEN "stopped"
                    ELSE IF last.ready = transition.new_replicas THEN "running"
                    ELSE "scaling"
            /\ transition.previous_replicas # NoReplicas =>
                    transition.previous_state =
                        IF transition.previous_replicas = 0 THEN "stopped"
                        ELSE "running"

\* ------------------------------------------------------------ misfires
\* C18: an occurrence that cannot start within 300 seconds of its scheduled
\* time is not executed; an occurrence that can start within 300 seconds of
\* its scheduled time is executed; and whatever was skipped, the job waits
\* for the first occurrence that is not yet due.
C18_GraceWindow ==
    /\ \A fire \in trail :
            fire.outcome = "executed" <=> fire.at - fire.scheduled <= MisfireGraceTime
    /\ \A i \in DOMAIN jobs :
            /\ jobs[i].next_run_time >= now
            /\ jobs[i].next_run_time <= now + Period
            /\ jobs[i].next_run_time % Period = 0

MonthlyReported == Reported /\ "month" \in DOMAIN report

\* The transitions strictly before the start of the window, and those from
\* the start of the window up to second t.
Before == {i \in 1..Len(history) : history[i].changed_at < WindowStart}
Inside(t) == {i \in 1..Len(history) :
                history[i].changed_at >= WindowStart /\ history[i].changed_at <= t}

LastOf(rows) == CHOOSE i \in rows : \A j \in rows : j <= i

StateAtWindowStart ==
    IF Before # {} THEN history[LastOf(Before)].new_state ELSE "stopped"

\* The state during second t of the window.
StateAt(t) ==
    IF Inside(t) # {} THEN history[LastOf(Inside(t))].new_state
    ELSE StateAtWindowStart

Seconds(states) == Cardinality({t \in WindowStart..(WindowEnd - 1) : StateAt(t) \in states})

DurationRule(n) ==
    CASE n < 60 -> Str(n) \o <<"s">>
      [] n >= 60 /\ n < 3600 -> Str(n \div 60) \o <<"m">>
      [] n >= 3600 /\ n < 86400 ->
            IF (n \div 60) % 60 = 0 THEN Str(n \div 3600) \o <<"h">>
            ELSE Str(n \div 3600) \o <<"h", " ">> \o Str((n \div 60) % 60) \o <<"m">>
      [] OTHER ->
            IF (n \div 3600) % 24 = 0 THEN Str(n \div 86400) \o <<"d">>
            ELSE Str(n \div 86400) \o <<"d", " ">> \o Str((n \div 3600) % 24) \o <<"h">>

\* C22: every formatted duration of a monthly report, with or without
\* transition history, is the text of its seconds value.
C22_FormattedDurations ==
    MonthlyReported =>
        /\ report.uptime_formatted = DurationRule(report.uptime_seconds)
        /\ report.downtime_formatted = DurationRule(report.downtime_seconds)
        /\ "scaling_formatted" \in DOMAIN report =>
                report.scaling_formatted = DurationRule(report.scaling_seconds)

\* --------------------------------------------------- fields of the report
\* The fields of MonthlyMetrics, year and month being one number here.
ReportFields ==
    {"month", "uptime_seconds", "downtime_seconds", "scaling_seconds",
     "uptime_percentage", "downtime_percentage", "uptime_formatted",
     "downtime_formatted", "scaling_formatted", "total_seconds", "month_start",
     "month_end"}

\* C23: every monthly report, with or without transition history, has the
\* same fields: the three counters, both percentages, the three formatted
\* durations and the start and end of the window.
C23_SameFieldSet ==
    MonthlyReported => DOMAIN report = ReportFields

\* ---------------------------------------------------------- status mapping
\* C24: for every inventory of a namespace that the tenant list shows, the
\* status of the tenant list and the status of the single-tenant query are
\* the same.
C24_SameStatusEverywhere ==
    (last.op = "status" /\ report.list_tenants # "not listed") =>
        report.list_tenants = report.get_tenant

\* ------------------------------------------------------- allowed namespaces
EnabledGrants(sub) == {g \in grants : g.user_id = sub /\ g.enabled}

\* C25: the allowed namespaces are the wildcard for a user with the admin or
\* the viewer role, and otherwise exactly the namespaces of the user's
\* enabled grants: none for an operator without a grant.
C25_AllowedNamespaces ==
    last.op = "allowed" =>
        /\ (last.user.roles \cap {"admin", "viewer"} # {}) =>
                report.allowed_namespaces = {"*"}
        /\ (last.user.roles \cap {"admin", "viewer"} = {}) =>
                /\ \A ns \in GrantedNamespaces :
                        ns \in report.allowed_namespaces <=>
                            \E g \in EnabledGrants(last.user.sub) : g.namespace = ns
                /\ report.allowed_namespaces \subseteq GrantedNamespaces
                /\ (EnabledGrants(last.user.sub) = {}) =>
                        report.allowed_namespaces = {}

\* An operator with an enabled grant, a disabled grant and next to another
\* user's enabled grant is allowed the one namespace.
C25_Witness ==
    /\ last.op = "allowed"
    /\ last.user = [sub |-> "alice", roles |-> {"operator"}]
    /\ grants = {[user_id |-> "alice", namespace |-> "tenant-a", enabled |-> TRUE],
                 [user_id |-> "alice", namespace |-> "tenant-b", enabled |-> FALSE],
                 [user_id |-> "bob", namespace |-> "tenant-b", enabled |-> TRUE]}
    /\ report.allowed_namespaces = {"tenant-a"}

AnnotationInconsistent ==
    /\ last.op = "race"
    /\ workloads["web"].replicas = 0
    /\ last.ran > 0
    /\ workloads["web"].original_replicas # Present(Str(last.ran))

\* C27: a Deployment at 0 replicas whose annotation differs from the count
\* it had when it last ran is the work of scale calls that overlapped; scale
\* calls made one after the other never leave it.  (That overlapping calls
\* do leave it is the witness.)
C27_InconsistentOnlyByOverlap ==
    AnnotationInconsistent => last.overlapped

\* A stop and a scale interleaved and both ended: the Deployment is at 0
\* and the annotation differs from the count it last ran with.
C27_Witness ==
    /\ AnnotationInconsistent
    /\ last.overlapped
    /\ \A p \in Servers : call[p].pc = "idle"

\* ------------------------------------------------------- reported replicas
\* C28: after a tenant operation, the replicas of every successful result
\* entry of a replica workload, and the new_replicas of the transition
\* record the operation appended when all its resources were scaled, are the
\* replica count the workload now has.
C28_ReportedReplicasApplied ==
    (last.op \in {"start", "stop", "fire"} /\ last.executed) =>
        /\ \A i \in 1..Len(last.results) :
                (last.results[i].success /\ last.results[i].type # "DaemonSet") =>
                    last.results[i].replicas =
                        workloads[last.results[i].resource].replicas
        /\ (Len(history) > Len(last.prior) /\ last.clean) =>
                \A n \in DOMAIN workloads \cap ReplicaNames :
                    history[Len(history)].new_replicas = workloads[n].replicas

\* ---------------------------------------------- overlapping tenant operations
\* C29: when a start and a stop of the tenant were under way together and
\* both have completed, the latest transition record says stopped exactly
\* when the Deployment of the namespace is at 0 replicas.
C29_LatestRecordAgreesWithCluster ==
    (/\ last.op = "overlap"
     /\ last.concurrent
     /\ Selecting = {}
     /\ history # <<>>) =>
        (LatestState(history).new_state = "stopped"
            <=> \A n \in DOMAIN workloads \cap ReplicaNames :
                    workloads[n].replicas = 0)

\* ------------------------------------------------------- failed operations
\* C30: a start or stop request that ends with an error for its caller
\* (403, 404 or 500) has changed no workload of the cluster, appended no
\* transition record and stored no tenant row.
C30_ErrorChangesNothing ==
    [][(/\ last'.op \in {"start", "stop"}
        /\ now' = now + 1
        /\ last'.status \in {403, 404, 500}) =>
            /\ workloads' = workloads
            /\ history' = history
            /\ tenant' = tenant]_vars
====
